---- MODULE Spec2Model ----
(***************************************************************************)
(* A state-machine model of src/database_automation.py: the connection     *)
(* manager (get_connection / execute_query over psycopg2 pools and pymssql *)
(* connections), the per-target operations, the fan-out jobs, the          *)
(* monitoring loop and the shutdown signal handler.                        *)
(***************************************************************************)
EXTENDS Integers, Sequences, FiniteSets, TLC

\* ------------------------------------------------------------------ bounds
\* send_alert calls made in all
MaxAlerts == 2
\* entries of the backup directory
MaxFiles == 2
\* consecutive cleanup_old_backups runs
MaxCleanups == 2
\* largest connection_pool_size a target is configured with
MaxPoolSize == 2
\* get_connection scopes the client threads open in all
MaxCalls == 4

\* job runs the scheduler starts in all
MaxFirings == 1

\* ------------------------------------------------------- program constants
\* psycopg2.pool.ThreadedConnectionPool(minconn=1, ...)
minconn == 1

\* --------------------------------------------------------------- universe
\* keys of config['databases']
Targets == {"pg1", "pg2", "ms1"}
\* threads that call execute_query directly (the CLI, the tests)
Clients == {"c1", "c2", "c3"}
\* who can be inside a get_connection scope: a client thread, or the worker
\* running the per-target operation of target t (named t)
Actors == Clients \cup Targets

\* values of config['backup']['parallel_jobs']
ParallelJobs == {1, 2}

\* values of config['monitoring']['check_interval'], in seconds
CheckIntervals == {30, 300}

\* config['databases'][t]['db_type']
db_type(t) == IF t = "ms1" THEN "sqlserver" ELSE "postgresql"

ConnIds == 1..(Cardinality(Actors) + 1)

VARIABLES
    cfg,                    \* the loaded configuration
    connection_pools,       \* self.connection_pools
    live,                   \* open physical connections of each target
    tainted,                \* connections whose operation was interrupted
    scope,                  \* each actor's get_connection scope
    ncalls,                 \* get_connection scopes opened by the client threads
    shutdown_event,         \* self.shutdown_event
    mainPc,                 \* where the main thread is in start_monitoring
    sleepI,                 \* iterations done of the inner sleep loop
    missed,                 \* a cadence instant of a scheduled job passed during the run in progress
    batch,                  \* runnable jobs the current run_pending still has to run
    curJob,                 \* the job the main thread is executing
    task,                   \* the per-target operation submitted to the executor
    completed,              \* finished futures as_completed has not yielded yet
    results,                \* backup_results / optimization_results
    monitoring_metrics,     \* self.monitoring_metrics
    backup_counter,         \* Prometheus counter db_backups_total
    summary,                \* the summary alert of the last finished digest job
    log,                    \* scheduler-level log lines written, by kind
    fired,                  \* job runs that run_pending has started or queued
    alert_config,           \* self.alert_config
    send,                   \* the send_alert call of the alerting thread and its caller
    smtp_calls,             \* calls made to smtplib so far
    alert_errors,           \* 'Failed to send alert' lines logged
    files,                  \* the entries of backup_config.backup_path
    cleanup,                \* the last result of cleanup_old_backups and the runs made
    startup,                \* where DatabaseAutomation.__init__ is, and what it meets
    load,                   \* the configuration file and what _load_config made of it
    proc                    \* where main() is, and how the process ends

poolVars == <<connection_pools, live, tainted, scope>>
\* state of the parts modelled on their own
cliVars == <<load, proc>>
auxVars == <<alert_config, send, smtp_calls, alert_errors, startup, cliVars>>
dirVars == <<files, cleanup>>
schedVars == <<shutdown_event, mainPc, sleepI, missed, batch, curJob, task, completed,
               results, monitoring_metrics, backup_counter, summary, log, fired>>
vars == <<cfg, connection_pools, live, tainted, scope, ncalls, shutdown_event, mainPc,
          sleepI, missed, batch, curJob, task, completed, results, monitoring_metrics,
          backup_counter, summary, log, fired, alert_config, send, smtp_calls, alert_errors,
          files, cleanup, startup, load, proc>>

\* ------------------------------------------------------------ construction
NoScope == [pc |-> "out", db |-> "none", conn |-> 0, last |-> "none"]

\* str(db_config.get('enabled', 'true')).lower() == 'true'
Enabled(t) == cfg.enabled[t]

\* connect of the minconn initial connections succeeded: the pool of an enabled
\* postgresql target starts with one idle connection; a sqlserver target has a
\* configuration entry and no connection
InitPool(en, t) ==
    [present |-> en[t],
     closed  |-> FALSE,
     idle    |-> IF en[t] /\ db_type(t) = "postgresql" THEN 1..minconn ELSE {},
     used    |-> {}]

InitLive(en, t) == IF en[t] /\ db_type(t) = "postgresql" THEN 1..minconn ELSE {}

NoTask == [st |-> "none", kind |-> "none", i |-> 0, status |-> "none", cc |-> "unset",
           lrq |-> "unset", result |-> "none", info |-> 0, warn |-> 0, crit |-> 0,
           gauge |-> "unset"]

LogKinds == {"signal", "daily_start", "weekly_start", "loop_stopped"}

\* names of the entries the backup directory can hold
FileIds == 1..MaxFiles

NoFile == [present |-> FALSE, kind |-> "none", ext |-> "none", age |-> 0]

\* an existing backup directory without entries
EmptyDir == [i \in FileIds |-> NoFile]

NoCleanup == [path_exists |-> TRUE, runs |-> 0, status |-> "none", deleted |-> {}, failed |-> {}]

\* no send_alert call is in progress and none was made
NoSend == [pc |-> "idle", severity |-> "none", result |-> "none", after |-> "none",
           attempts |-> 0, calls |-> 0, returns |-> 0, raised |-> FALSE]

\* required_sections = ['databases', 'monitoring', 'backup']
RequiredSections == <<"databases", "monitoring", "backup">>

\* top-level keys a configuration file can have
Sections == {"databases", "monitoring", "backup", "logging"}

\* the configuration files: absent, or holding a document that yaml.safe_load
\* rejects (invalid), loads as None (null: an empty file, comments only) or
\* loads as a mapping with the given top-level keys
ConfigFiles ==
    [exists : BOOLEAN, kind : {"mapping"}, sections : SUBSET Sections]
        \cup [exists : BOOLEAN, kind : {"null", "invalid"}, sections : {{}}]

NoResult == [kind |-> "none", section |-> "none"]

\* a complete configuration file was read and returned
ConfigLoaded ==
    LET f == [exists |-> TRUE, kind |-> "mapping",
              sections |-> {"databases", "monitoring", "backup"}] IN
    [file |-> f, read |-> f, result |-> [kind |-> "parsed", section |-> "none"]]

\* main() was not called
NoProc == [pc |-> "none", command |-> "none", automation |-> FALSE, cause |-> "none",
           exc |-> "none", closes |-> 0, status |-> "none", raised |-> FALSE]

\* what the targets of the configuration are like when the object is built
TargetConditions == {"ok", "unreachable", "malformed"}

\* __init__ returned; the conditions met play no part afterwards
Constructed == [pc |-> "done", i |-> Cardinality(Targets), env |-> [t \in Targets |-> "ok"]]

\* no thread holds a connection, no job and no alert was started
NothingRun ==
    /\ tainted = [t \in Targets |-> {}]
    /\ scope = [a \in Actors |-> NoScope]
    /\ ncalls = 0
    /\ shutdown_event = FALSE
    /\ mainPc = "poll"
    /\ sleepI = 0
    /\ missed = FALSE
    /\ batch = <<>>
    /\ curJob = "none"
    /\ task = [t \in Targets |-> NoTask]
    /\ completed = <<>>
    /\ results = <<>>
    /\ monitoring_metrics = [t \in Targets |-> "none"]
    /\ backup_counter = [t \in Targets |-> [started |-> 0, success |-> 0, failed |-> 0]]
    /\ summary = [job |-> "none", severity |-> "none"]
    /\ log = [k \in LogKinds |-> 0]
    /\ fired = 0
    /\ send = NoSend
    /\ smtp_calls = 0
    /\ alert_errors = 0

\* the state DatabaseAutomation.__init__ leaves for configuration cfg, but for
\* the backup directory it finds
ConstructedRest ==
    /\ connection_pools = [t \in Targets |-> InitPool(cfg.enabled, t)]
    /\ live = [t \in Targets |-> InitLive(cfg.enabled, t)]
    /\ startup = Constructed
    /\ load = ConfigLoaded
    /\ proc = NoProc
    /\ NothingRun

ConstructedState == ConstructedRest /\ cleanup = NoCleanup

\* ------------------------------------------------------------- connections
\* connections held by the scopes that are open on target t
HeldConns(t) == {scope[a].conn : a \in {b \in Actors : scope[b].pc \in {"held", "hung"} /\ scope[b].db = t}}

KnownConns(t) == connection_pools[t].idle \cup connection_pools[t].used \cup live[t] \cup HeldConns(t)

\* a connection object that did not exist before
NewConn(t) == CHOOSE n \in ConnIds : n \notin KnownConns(t) /\ \A m \in 1..(n - 1) : m \in KnownConns(t)

\* the except clause of get_connection: the error is logged and re-raised
AcquireFails(a, t) ==
    /\ scope' = [scope EXCEPT ![a] = [pc |-> "out", db |-> "none", conn |-> 0, last |-> "acquire_failed"]]
    /\ UNCHANGED <<connection_pools, live, tainted>>

\* getconn hands out idle connection c: under the lock of the pool it is popped
\* from the idle list and entered among the used ones
MutTakeIdle(p, c) == [p EXCEPT !.used = @ \cup {c}]
TakeIdle(p, c) == [p EXCEPT !.idle = @ \ {c}, !.used = @ \cup {c}]

\* ThreadedConnectionPool.getconn
PgGetconn(a, t) ==
    LET p == connection_pools[t] IN
    IF p.closed
    THEN AcquireFails(a, t)                       \* PoolError: pool is closed
    ELSE IF p.idle # {}
    THEN \E c \in p.idle :
            /\ connection_pools' = [connection_pools EXCEPT ![t] = TakeIdle(p, c)]
            /\ scope' = [scope EXCEPT ![a] = [pc |-> "held", db |-> t, conn |-> c, last |-> "none"]]
            /\ UNCHANGED <<live, tainted>>
    ELSE IF Cardinality(p.used) >= cfg.pool_size[t]
    THEN AcquireFails(a, t)                       \* PoolError: pool exhausted
    ELSE \/ AcquireFails(a, t)                    \* the server refuses the connection
         \/ LET c == NewConn(t) IN
            /\ connection_pools' = [connection_pools EXCEPT ![t].used = @ \cup {c}]
            /\ live' = [live EXCEPT ![t] = @ \cup {c}]
            /\ scope' = [scope EXCEPT ![a] = [pc |-> "held", db |-> t, conn |-> c, last |-> "none"]]
            /\ UNCHANGED tainted

\* pymssql.connect: a new connection for every scope, 'max_connections' is not read
MsConnect(a, t) ==
    \/ AcquireFails(a, t)
    \/ LET c == NewConn(t) IN
       /\ live' = [live EXCEPT ![t] = @ \cup {c}]
       /\ scope' = [scope EXCEPT ![a] = [pc |-> "held", db |-> t, conn |-> c, last |-> "none"]]
       /\ UNCHANGED <<connection_pools, tainted>>

\* get_connection up to its yield
GetConnEnter(a, t) ==
    /\ scope[a].pc = "out"
    /\ IF ~connection_pools[t].present
       THEN \* ValueError before the try block
            /\ scope' = [scope EXCEPT ![a] = [pc |-> "out", db |-> "none", conn |-> 0, last |-> "acquire_failed"]]
            /\ UNCHANGED <<connection_pools, live, tainted>>
       ELSE IF db_type(t) = "postgresql" THEN PgGetconn(a, t) ELSE MsConnect(a, t)

\* how the body of a scope can end: it returns, the engine reports an error, the
\* operation is interrupted or timed out (the connection stays usable), the
\* connection is lost, or the call never returns. psycopg2 is given no statement
\* timeout; pymssql is connected with timeout=connect_timeout (30 by default) and
\* ends a query that exceeds it with an error
BodyOutcomes(t, c) ==
    IF c \notin live[t] THEN {"ok", "lost"}
    ELSE IF db_type(t) = "sqlserver" THEN {"ok", "error", "interrupt", "lost"}
    ELSE {"ok", "error", "interrupt", "lost", "hang"}

Raised(outcome) == outcome \in {"error", "interrupt", "lost"}

\* the finally clause of get_connection releases whatever the body did
MutReleasesOnExit(outcome) == outcome = "ok"
ReleasesOnExit(outcome) == TRUE

\* ThreadedConnectionPool.putconn for connection c after a body that ended in
\* outcome: at most minconn idle connections are kept, a lost connection is closed
PgPutconn(t, c, outcome) ==
    LET p == connection_pools[t] IN
    IF p.closed
    THEN \* PoolError: logged and swallowed
         /\ tainted' = IF outcome = "interrupt" /\ c \in live[t]
                       THEN [tainted EXCEPT ![t] = @ \cup {c}] ELSE tainted
         /\ UNCHANGED <<connection_pools, live>>
    ELSE LET keep == Cardinality(p.idle) < minconn /\ c \in live[t] /\ outcome # "lost" IN
         /\ connection_pools' = [connection_pools EXCEPT
                ![t].used = @ \ {c},
                ![t].idle = IF keep THEN @ \cup {c} ELSE @]
         /\ live' = [live EXCEPT ![t] = IF keep THEN @ ELSE @ \ {c}]
         /\ tainted' = [tainted EXCEPT ![t] =
                IF ~keep THEN @ \ {c}
                ELSE IF outcome = "interrupt" THEN @ \cup {c} ELSE @]

\* conn.close() of a pymssql connection
MsClose(t, c) ==
    /\ live' = [live EXCEPT ![t] = @ \ {c}]
    /\ tainted' = [tainted EXCEPT ![t] = @ \ {c}]
    /\ UNCHANGED connection_pools

\* the rest of get_connection once the body has ended: except, then finally
GetConnExit(a, outcome) ==
    LET t == scope[a].db
        c == scope[a].conn
    IN
    /\ scope[a].pc = "held"
    /\ outcome \in BodyOutcomes(t, c)
    /\ IF outcome = "hang"
       THEN /\ scope' = [scope EXCEPT ![a].pc = "hung"]
            /\ UNCHANGED <<connection_pools, live, tainted>>
       ELSE /\ scope' = [scope EXCEPT ![a] = [pc |-> "out", db |-> "none", conn |-> 0,
                             last |-> IF Raised(outcome) THEN "body_raised" ELSE "ok"]]
            /\ IF ~ReleasesOnExit(outcome)
               THEN UNCHANGED <<connection_pools, live, tainted>>
               ELSE IF db_type(t) = "postgresql"
                    THEN PgPutconn(t, c, outcome)
                    ELSE MsClose(t, c)

\* close_all_connections: closeall() of every postgresql pool; a second closeall
\* raises PoolError, which is logged; sqlserver entries are only logged
ClosedPools ==
    [t \in Targets |->
        IF connection_pools[t].present /\ db_type(t) = "postgresql"
        THEN [connection_pools[t] EXCEPT !.closed = TRUE]
        ELSE connection_pools[t]]

LiveAfterClose ==
    [t \in Targets |->
        IF connection_pools[t].present /\ db_type(t) = "postgresql" /\ ~connection_pools[t].closed
        THEN {} ELSE live[t]]

close_all_connections ==
    /\ connection_pools' = ClosedPools
    /\ live' = LiveAfterClose
    /\ tainted' = [t \in Targets |-> tainted[t] \cap LiveAfterClose[t]]

\* ------------------------------------------------ client threads (PoolSpec)
ClientEnter(c, t) ==
    /\ ncalls < MaxCalls
    /\ GetConnEnter(c, t)
    /\ ncalls' = ncalls + 1
    /\ UNCHANGED <<cfg, auxVars, dirVars, schedVars>>

ClientExit(c, outcome) ==
    /\ GetConnExit(c, outcome)
    /\ UNCHANGED <<cfg, auxVars, dirVars, ncalls, schedVars>>

ClientCloseAll ==
    /\ \E t \in Targets : connection_pools[t].present /\ ~connection_pools[t].closed
    /\ close_all_connections
    /\ UNCHANGED <<cfg, auxVars, dirVars, scope, ncalls, schedVars>>

PoolInit ==
    /\ files = EmptyDir
    /\ alert_config = [enabled |-> TRUE, password |-> TRUE]
    /\ cfg \in [enabled : {[t \in Targets |-> t # "pg2"]},
                pool_size : {[t \in Targets |-> n] : n \in 1..MaxPoolSize},
                parallel_jobs : {2},
                check_interval : {300},
                retention_days : {7}]
    /\ ConstructedState

PoolNext ==
    \/ \E c \in Clients, t \in Targets : ClientEnter(c, t)
    \/ \E c \in Clients, o \in {"ok", "error", "interrupt", "lost", "hang"} : ClientExit(c, o)
    \/ ClientCloseAll

PoolSpec == PoolInit /\ [][PoolNext]_vars

\* ------------------------------------------------- per-target operations
\* the queries of _monitor_postgres_health / _monitor_sqlserver_health, in order
HealthQueries(t) ==
    IF db_type(t) = "postgresql"
    THEN <<"connection_count", "database_size", "long_running_queries", "table_stats",
           "index_usage", "replication_status", "database_conflicts">>
    ELSE <<"connection_count", "database_size", "wait_stats">>

\* the execute_query calls of _postgres_optimization / _sqlserver_optimization
OptimizationQueries(t) ==
    IF db_type(t) = "postgresql" THEN <<"analyze", "vacuum_analyze", "missing_indexes">>
    ELSE <<"sp_updatestats", "fragmentation">>

\* execute_query calls the operation makes: a postgresql backup runs pg_dump in a
\* subprocess and makes none
NumQueries(kind, t) ==
    CASE kind = "health" -> Len(HealthQueries(t))
      [] kind = "weekly" -> Len(OptimizationQueries(t))
      [] kind = "daily"  -> IF db_type(t) = "sqlserver" THEN 1 ELSE 0
      [] OTHER -> 0

\* what the i-th query reports when it returns: rows, or for BACKUP DATABASE the
\* backup file that os.path.exists then finds or not
Payloads(kind, t, i) == IF kind = "daily" THEN {"file", "no_file"} ELSE {"rows"}

\* the try/except Exception of the operation of a job: monitor_database_health,
\* automated_backup, and _postgres_optimization / _sqlserver_optimization on behalf
\* of performance_optimization, each return a value from the except clause
MutCaught(kind) == kind # "weekly"
Caught(kind) == kind \in {"health", "daily", "weekly"}

\* what the future of the operation holds when an exception is raised in it
OnRaise(kind, returned) == IF Caught(kind) THEN returned ELSE "raised"

\* the end of monitor_database_health: _check_health_alerts reads
\* health_data['connection_count'][0], which raises on the {'error': ...} entry
\* of a failed query and lands in the except clause (CRITICAL alert, status
\* error); otherwise one WARNING alert is sent if the connection count is over
\* its threshold (high) or the list of long-running queries is not empty (long);
\* the finished record keeps what the two metrics held: cc is high for a count
\* over the threshold, lrq is rows for a list that is not empty
\* db_health_gauge of the target: 1 for the status healthy, 0 for any other
MutHealthGauge(status) == "1"
HealthGauge(status) == IF status = "healthy" THEN "1" ELSE "0"

HealthDone(r, high, long) ==
    IF r.cc = "error"
    THEN [r EXCEPT !.st = "done", !.result = OnRaise("health", "error"),
                   !.crit = IF Caught("health") THEN 1 ELSE 0,
                   !.gauge = IF Caught("health") THEN "0" ELSE HealthGauge(r.status),
                   !.lrq = IF long THEN "rows" ELSE @]
    ELSE [r EXCEPT !.st = "done", !.result = r.status,
                   !.warn = IF high \/ long THEN 1 ELSE 0,
                   !.gauge = HealthGauge(r.status),
                   !.cc = IF high THEN "high" ELSE @,
                   !.lrq = IF long THEN "rows" ELSE @]

\* the alert automated_backup sends for its outcome: INFO after a successful
\* backup, CRITICAL from the except clause, none for a failure returned as a value
BackupAlert(outcome) ==
    CASE outcome = "success" -> "INFO"
      [] outcome = "raised"  -> "CRITICAL"
      [] OTHER               -> "none"

\* the end of automated_backup for outcome success, failed (returned by
\* _postgres_backup / _sqlserver_backup) or raised (caught by its except clause)
BackupDone(r, outcome) ==
    [r EXCEPT !.st = "done",
              !.result = CASE outcome = "success" -> "success"
                           [] outcome = "raised"  -> OnRaise("daily", "failed")
                           [] OTHER               -> "failed",
              !.info = IF BackupAlert(outcome) = "INFO" THEN 1 ELSE 0,
              !.crit = IF BackupAlert(outcome) = "CRITICAL" /\ Caught("daily") THEN 1 ELSE 0]

\* the operation's record after its next execute_query ended: qres is ok or raised
AfterQuery(t, r, qres, payload) ==
    LET n == r.i + 1 IN
    CASE r.kind = "health" ->
            LET q  == HealthQueries(t)[n]
                r1 == [r EXCEPT !.i = n,
                         !.status = IF qres = "raised" THEN "degraded" ELSE @,
                         !.cc  = IF q = "connection_count"
                                 THEN (IF qres = "raised" THEN "error" ELSE "ok") ELSE @,
                         !.lrq = IF q = "long_running_queries"
                                 THEN (IF qres = "raised" THEN "error" ELSE "ok") ELSE @]
            IN r1
      [] r.kind = "weekly" ->
            IF qres = "raised"
            THEN [r EXCEPT !.i = n, !.st = "done", !.result = OnRaise("weekly", "failed")]
            ELSE IF n = Len(OptimizationQueries(t))
                 THEN [r EXCEPT !.i = n, !.st = "done", !.result = "success"]
                 ELSE [r EXCEPT !.i = n]
      [] OTHER ->
            BackupDone([r EXCEPT !.i = n],
                       IF qres = "ok" /\ payload = "file" THEN "success" ELSE "failed")

\* ThreadPoolExecutor(max_workers=...) of the running fan-out
MaxWorkers ==
    IF curJob = "daily" THEN cfg.parallel_jobs
    ELSE IF Cardinality({t \in Targets : Enabled(t)}) > 1
         THEN Cardinality({t \in Targets : Enabled(t)}) ELSE 1

\* order of config['databases'], in which the futures are submitted
TargetOrder == <<"pg1", "pg2", "ms1">>

Pos(t) == CHOOSE k \in 1..Len(TargetOrder) : TargetOrder[k] = t

\* get_enabled_databases() for the enabled flags en: the loop over
\* config['databases'] appends the names whose flag is true
MutEnabledIn(en) == TargetOrder
EnabledIn(en) == SelectSeq(TargetOrder, LAMBDA t : en[t])

get_enabled_databases == EnabledIn(cfg.enabled)

Running == {t \in Targets : task[t].st = "running"}

\* a worker thread takes the oldest queued work item when one is idle
CanStart(t) ==
    /\ Cardinality(Running) < MaxWorkers
    /\ \A u \in Targets : task[u].st = "queued" => Pos(t) <= Pos(u)

workerFrame == <<cfg, auxVars, dirVars, ncalls, shutdown_event, mainPc, sleepI, missed, batch, curJob, results,
                 monitoring_metrics, summary, log, fired>>

\* the status label of backup_counter that automated_backup increments at its
\* end: success after a successful result, failed in the else branch and in the
\* except clause
MutCounterLabel(result) == "failed"
CounterLabel(result) == IF result = "success" THEN "success" ELSE "failed"

\* the record of target t becomes r2; a finished future is handed to as_completed
\* and automated_backup counts its outcome
TaskUpdate(t, r2) ==
    /\ task' = [task EXCEPT ![t] = r2]
    /\ completed' = IF r2.st = "done" THEN Append(completed, t) ELSE completed
    /\ backup_counter' =
          IF r2.st = "done" /\ r2.kind = "daily"
          THEN [backup_counter EXCEPT ![t][CounterLabel(r2.result)] = @ + 1]
          ELSE backup_counter

\* a worker starts the operation of target t
TaskStart(t) ==
    /\ task[t].st = "queued"
    /\ CanStart(t)
    /\ task' = [task EXCEPT ![t].st = "running",
                            ![t].status = IF task[t].kind = "health" THEN "healthy" ELSE "none"]
    /\ backup_counter' = IF task[t].kind = "daily"
                         THEN [backup_counter EXCEPT ![t].started = @ + 1] ELSE backup_counter
    /\ UNCHANGED <<poolVars, completed, workerFrame>>

\* the operation calls execute_query: get_connection up to the yield
OpEnter(t) ==
    /\ task[t].st = "running"
    /\ task[t].i < NumQueries(task[t].kind, t)
    /\ GetConnEnter(t, t)
    /\ IF scope'[t].pc = "held"
       THEN UNCHANGED <<task, completed, backup_counter>>
       ELSE TaskUpdate(t, AfterQuery(t, task[t], "raised", "none"))
    /\ UNCHANGED workerFrame

\* the query ends with outcome o and the scope is left
OpExit(t, o, p) ==
    /\ task[t].st = "running"
    /\ p \in (IF o = "ok" THEN Payloads(task[t].kind, t, task[t].i + 1) ELSE {"none"})
    /\ GetConnExit(t, o)
    /\ IF o = "hang"
       THEN UNCHANGED <<task, completed, backup_counter>>
       ELSE TaskUpdate(t, AfterQuery(t, task[t], IF o = "ok" THEN "ok" ELSE "raised", p))
    /\ UNCHANGED workerFrame

\* the metrics are collected: the gauge is set and _check_health_alerts reads the
\* stored connection count and long-running queries, whatever the queries returned
CheckHealthAlerts(t, high, long) ==
    /\ task[t].st = "running" /\ task[t].kind = "health"
    /\ task[t].i = NumQueries("health", t)
    /\ high => task[t].cc = "ok"
    /\ long => task[t].lrq = "ok"
    /\ TaskUpdate(t, HealthDone(task[t], high, long))
    /\ UNCHANGED <<poolVars, workerFrame>>

\* _postgres_backup: pg_dump ends within its one-hour timeout; only exit code 0
\* with the file present is a success, every other end is a failed value
BackupPgRun(t, o) ==
    /\ task[t].st = "running" /\ task[t].kind = "daily" /\ db_type(t) = "postgresql"
    /\ o \in {"ok", "no_file", "nonzero", "timeout", "oserror"}
    /\ TaskUpdate(t, BackupDone(task[t], IF o = "ok" THEN "success" ELSE "failed"))
    /\ UNCHANGED <<poolVars, workerFrame>>

\* Path(backup_path).mkdir raises inside automated_backup: its except clause
BackupMkdirFails(t) ==
    /\ task[t].st = "running" /\ task[t].kind = "daily"
    /\ task[t].i = 0 /\ scope[t].pc = "out"
    /\ TaskUpdate(t, BackupDone(task[t], "raised"))
    /\ UNCHANGED <<poolVars, workerFrame>>

\* ------------------------------------------------------------- main thread
Jobs == {"daily", "health", "weekly", "cleanup"}

\* schedule_automated_tasks: the health job is registered only for intervals of a
\* minute or more
Scheduled(j) == j # "health" \/ cfg.check_interval >= 60

\* the job lists a call of run_pending can find runnable: any scheduled jobs whose
\* next_run has passed, each once, ordered by next_run; at most n of them
Runnable(n) ==
    {q \in UNION {[1..k -> {j \in Jobs : Scheduled(j)}] : k \in 0..n} :
        \A a, b \in DOMAIN q : a # b => q[a] # q[b]}

LogLine(k) == [log EXCEPT ![k] = @ + 1]

mainFrame == <<cfg, auxVars, ncalls, poolVars, backup_counter, fired>>


\* while not shutdown_event.is_set(): schedule.run_pending() collects the runnable
\* jobs, oldest next_run first
MainPoll ==
    /\ mainPc = "poll"
    /\ IF shutdown_event
       THEN /\ mainPc' = "exited"
            /\ log' = LogLine("loop_stopped")
            /\ close_all_connections
            /\ UNCHANGED <<batch, fired, scope>>
       ELSE /\ mainPc' = "pending"
            /\ batch' \in Runnable(MaxFirings - fired)
            /\ fired' = fired + Len(batch')
            /\ UNCHANGED <<log, poolVars>>
    /\ UNCHANGED <<cfg, auxVars, dirVars, ncalls, shutdown_event, sleepI, missed, curJob, task, completed, results,
                   monitoring_metrics, backup_counter, summary>>

\* run_pending runs the next runnable job in the main thread: a fan-out job
\* submits one future per enabled target
StartFanOut ==
    /\ mainPc = "pending" /\ batch # <<>> /\ Head(batch) # "cleanup"
    /\ curJob' = Head(batch)
    /\ batch' = Tail(batch)
    /\ mainPc' = "collect"
    /\ task' = [t \in Targets |->
                  IF \E k \in 1..Len(get_enabled_databases) : get_enabled_databases[k] = t
                  THEN [NoTask EXCEPT !.st = "queued", !.kind = Head(batch)]
                  ELSE NoTask]
    /\ completed' = <<>>
    /\ results' = <<>>
    /\ log' = IF Head(batch) = "daily" THEN LogLine("daily_start")
              ELSE IF Head(batch) = "weekly" THEN LogLine("weekly_start") ELSE log
    /\ UNCHANGED <<mainFrame, dirVars, shutdown_event, sleepI, missed, monitoring_metrics, summary>>

\* ------------------------------------------------------ cleanup_old_backups
\* backup_extensions = ['.sql', '.sql.gz', '.bak', '.dump']
BackupExtensions == {".sql", ".sql.gz", ".bak", ".dump"}

\* any(filename.endswith(ext) for ext in backup_extensions) and os.path.isfile
MutIsBackupFile(f) == f.present /\ f.ext \in BackupExtensions
IsBackupFile(f) == f.present /\ f.ext \in BackupExtensions /\ f.kind = "file"

\* file_modified < cutoff_date, with cutoff_date = now - retention_days and the
\* age of the file in days
MutExpired(f, R) == f.age >= R
Expired(f, R) == f.age > R

\* the entries the loop processes, and those of them it removes when the
\* processing of the entries in fail raises (getmtime, getsize or remove)
Candidates(fs) == {i \in FileIds : IsBackupFile(fs[i])}

Removed(fs, R, fail) == {i \in Candidates(fs) : Expired(fs[i], R)} \ fail

\* cleanup_old_backups(): the directory and the result it leaves; listing is
\* "fails" when os.listdir raises, which the outer except clause turns into failed
CleanupResult(fs, c, R, fail, listing) ==
    IF ~c.path_exists
    THEN [dir |-> fs, status |-> "warning", deleted |-> {}, failed |-> {}]
    ELSE IF listing = "fails"
    THEN [dir |-> fs, status |-> "failed", deleted |-> {}, failed |-> {}]
    ELSE [dir |-> [i \in FileIds |-> IF i \in Removed(fs, R, fail) THEN NoFile ELSE fs[i]],
          status |-> IF fail = {} THEN "success" ELSE "partial_success",
          deleted |-> Removed(fs, R, fail),
          failed |-> fail]

\* one call of cleanup_old_backups with the configured retention
DoCleanup(fail, listing) ==
    LET r == CleanupResult(files, cleanup, cfg.retention_days, fail, listing) IN
    /\ fail \subseteq Candidates(files)
    /\ listing \in {"ok", "fails"}
    /\ listing = "fails" \/ ~cleanup.path_exists => fail = {}
    /\ files' = r.dir
    /\ cleanup' = [cleanup EXCEPT !.status = r.status, !.deleted = r.deleted,
                                  !.failed = r.failed, !.runs = @ + 1]


\* the 03:00 job: cleanup_old_backups in the main thread
RunCleanupJob ==
    /\ mainPc = "pending" /\ batch # <<>> /\ Head(batch) = "cleanup"
    /\ batch' = Tail(batch)
    /\ \E fail \in SUBSET FileIds, listing \in {"ok", "fails"} : DoCleanup(fail, listing)
    /\ UNCHANGED <<mainFrame, shutdown_event, mainPc, sleepI, missed, curJob, task, completed,
                   results, monitoring_metrics, summary, log>>

\* run_pending returns: the inner sleep loop starts
RunPendingDone ==
    /\ mainPc = "pending" /\ batch = <<>>
    /\ mainPc' = "sleep"
    /\ sleepI' = 0
    /\ UNCHANGED <<mainFrame, dirVars, shutdown_event, missed, batch, curJob, task, completed, results,
                   monitoring_metrics, summary, log>>

\* for future in as_completed(...): the main thread takes the next finished future
Collect ==
    /\ mainPc = "collect" /\ completed # <<>>
    /\ LET t == Head(completed) IN
       /\ completed' = Tail(completed)
       /\ task' = [task EXCEPT ![t].st = "collected"]
       /\ IF curJob = "health"
          THEN /\ monitoring_metrics' = [monitoring_metrics EXCEPT ![t] = task[t].result]
               /\ UNCHANGED results
          ELSE /\ results' = Append(results, <<t, task[t].result>>)
               /\ UNCHANGED monitoring_metrics
    /\ UNCHANGED <<mainFrame, dirVars, shutdown_event, mainPc, sleepI, missed, batch, curJob, summary, log>>

\* every future was yielded and the with block of the executor is left
ExecutorExit ==
    /\ mainPc = "collect"
    /\ \A t \in Targets : task[t].st \in {"none", "collected"}
    /\ IF curJob = "health"
       THEN /\ mainPc' = "pending"
            /\ curJob' = "none"
            /\ missed' = FALSE
            /\ task' = [t \in Targets |-> NoTask]
       ELSE /\ mainPc' = IF curJob = "daily" THEN "cleanup" ELSE "summary"
            /\ UNCHANGED <<curJob, missed, task>>
    /\ UNCHANGED <<mainFrame, dirVars, shutdown_event, sleepI, batch, completed, results,
                   monitoring_metrics, summary, log>>

\* run_daily_maintenance after the backups: cleanup_old_backups
DailyCleanup ==
    /\ mainPc = "cleanup"
    /\ mainPc' = "summary"
    /\ \E fail \in SUBSET FileIds, listing \in {"ok", "fails"} : DoCleanup(fail, listing)
    /\ UNCHANGED <<mainFrame, shutdown_event, sleepI, missed, batch, curJob, task, completed,
                   results, monitoring_metrics, summary, log>>

\* severity of the digest: INFO when every result is a success, WARNING otherwise
MutSummarySeverity(res) == "INFO"
SummarySeverity(res) ==
    IF Cardinality({k \in 1..Len(res) : res[k][2] = "success"}) = Len(res)
    THEN "INFO" ELSE "WARNING"

\* the summary alert that ends run_daily_maintenance / run_weekly_optimization
SendSummary ==
    /\ mainPc = "summary"
    /\ summary' = [job |-> curJob, severity |-> SummarySeverity(results)]
    /\ mainPc' = "pending"
    /\ curJob' = "none"
    /\ missed' = FALSE
    /\ task' = [t \in Targets |-> NoTask]
    /\ UNCHANGED <<mainFrame, dirVars, shutdown_event, sleepI, batch, completed, results,
                   monitoring_metrics, log>>

\* iterations of the inner loop: for _ in range(60)
SleepIters == 60

\* one iteration of the inner loop: leave on the event, else time.sleep(1)
SleepTick ==
    /\ mainPc = "sleep"
    /\ IF shutdown_event \/ sleepI >= SleepIters
       THEN /\ mainPc' = "poll"
            /\ UNCHANGED sleepI
       ELSE /\ sleepI' = sleepI + 1
            /\ UNCHANGED mainPc
    /\ UNCHANGED <<mainFrame, dirVars, shutdown_event, missed, batch, curJob, task, completed, results,
                   monitoring_metrics, summary, log>>

\* where sys.exit(0) of the handler leaves the main thread: SystemExit unwinds it,
\* through the executor's with block (which waits for the workers) if it is in one
MutAfterSignal(pc) == pc
AfterSignal(pc) == IF pc = "collect" THEN "unwind" ELSE "exited"

\* closeall() closes every connection of the pool, and closing a connection waits
\* for the connection's lock, which a query in progress holds: with a query that
\* never returns the handler may stay in closeall() for ever
CloseBlocks ==
    IF \E t \in Targets : db_type(t) = "postgresql" /\ scope[t].pc = "hung"
    THEN {TRUE, FALSE} ELSE {FALSE}

\* _signal_handler, run by the main thread between two of its steps
Signal ==
    /\ ~shutdown_event /\ mainPc # "exited"
    /\ shutdown_event' = TRUE
    /\ \E blocks \in CloseBlocks :
          IF blocks
          THEN /\ mainPc' = "blocked"
               /\ log' = LogLine("signal")
               /\ UNCHANGED <<connection_pools, live, tainted>>
          ELSE /\ close_all_connections
               /\ mainPc' = AfterSignal(mainPc)
               /\ log' = [log EXCEPT !["signal"] = @ + 1,
                                     !["loop_stopped"] = IF mainPc' = "exited" THEN @ + 1 ELSE @]
    /\ UNCHANGED <<cfg, auxVars, dirVars, ncalls, scope, sleepI, missed, batch, curJob, task, completed, results,
                   monitoring_metrics, backup_counter, summary, fired>>

\* shutdown(wait=True) of the executor returns once no work item is queued or
\* running; start_monitoring and main then run their finally clauses
UnwindDone ==
    /\ mainPc = "unwind"
    /\ \A t \in Targets : task[t].st \in {"none", "done", "collected"}
    /\ mainPc' = "exited"
    /\ log' = LogLine("loop_stopped")
    /\ UNCHANGED <<mainFrame, dirVars, shutdown_event, sleepI, missed, batch, curJob, task, completed,
                   results, monitoring_metrics, summary>>

\* the wall clock passes a cadence instant of job j while j is still running:
\* schedule computes next_run from the clock after the run, so nothing records it
CadenceDuringRun(j) ==
    /\ Scheduled(j) /\ mainPc # "exited"
    /\ curJob = j /\ ~missed
    /\ missed' = TRUE
    /\ UNCHANGED <<cfg, auxVars, dirVars, ncalls, poolVars, shutdown_event, mainPc, sleepI, fired, batch, curJob,
                   task, completed, results, monitoring_metrics, backup_counter, summary, log>>

\* the wall clock passes a cadence instant of job j while a different job is
\* running: run_pending is not being called, the main thread is inside the running
\* job, so j is not taken up before that job has returned
CadenceOfOtherJob(j) ==
    /\ Scheduled(j) /\ mainPc # "exited"
    /\ curJob \notin {"none", j} /\ ~missed
    /\ missed' = TRUE
    /\ UNCHANGED <<cfg, auxVars, dirVars, ncalls, poolVars, shutdown_event, mainPc, sleepI, fired, batch, curJob,
                   task, completed, results, monitoring_metrics, backup_counter, summary, log>>

SchedInit ==
    /\ files = EmptyDir
    /\ alert_config = [enabled |-> TRUE, password |-> TRUE]
    /\ cfg \in [enabled : {[t \in Targets |-> t # "pg2"]},
                pool_size : {[t \in Targets |-> MaxPoolSize]},
                parallel_jobs : ParallelJobs,
                check_interval : CheckIntervals,
                retention_days : {7}]
    /\ ConstructedState

WorkerStep(t) ==
    \/ TaskStart(t)
    \/ OpEnter(t)
    \/ \E o \in {"ok", "error", "interrupt", "lost", "hang"}, p \in {"none", "file", "no_file", "rows"} : OpExit(t, o, p)
    \/ \E high, long \in BOOLEAN : CheckHealthAlerts(t, high, long)
    \/ \E o \in {"ok", "no_file", "nonzero", "timeout", "oserror"} : BackupPgRun(t, o)
    \/ BackupMkdirFails(t)

MainStep ==
    \/ MainPoll
    \/ StartFanOut
    \/ RunCleanupJob
    \/ RunPendingDone
    \/ Collect
    \/ ExecutorExit
    \/ DailyCleanup
    \/ SendSummary
    \/ SleepTick
    \/ UnwindDone

SchedNext ==
    \/ MainStep
    \/ \E t \in Targets : WorkerStep(t)
    \/ Signal
    \/ \E j \in Jobs : CadenceDuringRun(j)
    \/ \E j \in Jobs : CadenceOfOtherJob(j)

SchedSpec == SchedInit /\ [][SchedNext]_vars

\* the same program configured with a single enabled target, of either engine
LoopInit ==
    /\ files = EmptyDir
    /\ alert_config = [enabled |-> TRUE, password |-> TRUE]
    /\ cfg \in [enabled : {[t \in Targets |-> t = u] : u \in {"pg1", "ms1"}},
                pool_size : {[t \in Targets |-> MaxPoolSize]},
                parallel_jobs : {1},
                check_interval : CheckIntervals,
                retention_days : {7}]
    /\ ConstructedState

LoopSpec == LoopInit /\ [][SchedNext]_vars

\* the operating system schedules every thread that can take a step
FairSched == SchedSpec /\ WF_vars(MainStep) /\ \A t \in Targets : WF_vars(WorkerStep(t))

\* ------------------------------------------------------------- send_alert
\* the smtplib calls of one send_alert, in order: SMTP(server, port), starttls(),
\* login() if a password is set, send_message(), and quit() on leaving the with block
SmtpSteps(password) ==
    IF password THEN <<"connect", "starttls", "login", "send", "quit">>
    ELSE <<"connect", "starttls", "send", "quit">>

NextSmtpStep(password, step) ==
    LET q == SmtpSteps(password)
        k == CHOOSE i \in 1..Len(q) : q[i] = step
    IN IF k = Len(q) THEN "return" ELSE q[k + 1]

\* if not self.alert_config.enabled: return
MutReturnsEarly(enabled) == FALSE
ReturnsEarly(enabled) == ~enabled

\* except Exception as e: logger.error(...) around the whole delivery
MutSwallowed(step) == step # "send"
Swallowed(step) == TRUE

\* what the caller returns after the send_alert call made with result res:
\* automated_backup calls it inside its try block, so an exception out of
\* send_alert would land in its except clause and turn the result into failed
CallerResult(res, raised) == IF raised THEN "failed" ELSE res

sendFrame == <<cfg, alert_config, startup, cliVars, dirVars, poolVars, ncalls, schedVars>>

\* a caller whose operation ended with result res calls send_alert(severity)
SendAlertCall(severity, res) ==
    /\ send.pc = "idle"
    /\ send.calls < MaxAlerts
    /\ IF ReturnsEarly(alert_config.enabled)
       THEN send' = [send EXCEPT !.severity = severity, !.result = res, !.attempts = 0,
                                 !.calls = @ + 1, !.returns = @ + 1,
                                 !.after = CallerResult(res, FALSE)]
       ELSE send' = [send EXCEPT !.pc = "connect", !.severity = severity, !.result = res,
                                 !.after = "none", !.attempts = 0, !.calls = @ + 1]
    /\ UNCHANGED <<smtp_calls, alert_errors, sendFrame>>

\* the next smtplib call of the delivery ends: it returns, raises, or never returns
\* (the SMTP object is created without a timeout)
SmtpStep(outcome) ==
    /\ send.pc \in {"connect", "starttls", "login", "send", "quit"}
    /\ outcome \in {"ok", "raises", "hangs"}
    /\ smtp_calls' = smtp_calls + 1
    /\ LET att == IF send.pc = "connect" THEN send.attempts + 1 ELSE send.attempts
           nxt == NextSmtpStep(alert_config.password, send.pc)
       IN CASE outcome = "hangs" ->
                 /\ send' = [send EXCEPT !.pc = "hung", !.attempts = att]
                 /\ UNCHANGED alert_errors
            [] outcome = "ok" /\ nxt # "return" ->
                 /\ send' = [send EXCEPT !.pc = nxt, !.attempts = att]
                 /\ UNCHANGED alert_errors
            [] outcome = "ok" /\ nxt = "return" ->
                 /\ send' = [send EXCEPT !.pc = "idle", !.attempts = att, !.returns = @ + 1,
                                         !.after = CallerResult(send.result, FALSE)]
                 /\ UNCHANGED alert_errors
            [] OTHER ->
                 IF Swallowed(send.pc)
                 THEN /\ send' = [send EXCEPT !.pc = "idle", !.attempts = att, !.returns = @ + 1,
                                              !.after = CallerResult(send.result, FALSE)]
                      /\ alert_errors' = alert_errors + 1
                 ELSE /\ send' = [send EXCEPT !.pc = "idle", !.attempts = att, !.returns = @ + 1,
                                              !.raised = TRUE,
                                              !.after = CallerResult(send.result, TRUE)]
                      /\ UNCHANGED alert_errors
    /\ UNCHANGED sendFrame

AlertInit ==
    /\ files = EmptyDir
    /\ alert_config \in [enabled : BOOLEAN, password : BOOLEAN]
    /\ cfg \in [enabled : {[t \in Targets |-> t # "pg2"]},
                pool_size : {[t \in Targets |-> MaxPoolSize]},
                parallel_jobs : {2},
                check_interval : {300},
                retention_days : {7}]
    /\ ConstructedState

AlertNext ==
    \/ \E severity \in {"INFO", "WARNING", "CRITICAL"}, res \in {"success", "failed"} :
          SendAlertCall(severity, res)
    \/ \E outcome \in {"ok", "raises", "hangs"} : SmtpStep(outcome)

AlertSpec == AlertInit /\ [][AlertNext]_vars

\* cleanup_old_backups called from the command line
CleanupRun(fail, listing) ==
    /\ cleanup.runs < MaxCleanups
    /\ DoCleanup(fail, listing)
    /\ UNCHANGED <<cfg, auxVars, poolVars, ncalls, schedVars>>

\* days since the modification of a file
Ages == {3, 7, 10}

FileRecs ==
    {NoFile} \cup [present : {TRUE}, kind : {"file", "dir"}, ext : {".sql.gz", ".bak", ".txt"},
                   age : Ages]

CleanupInit ==
    /\ alert_config = [enabled |-> TRUE, password |-> TRUE]
    /\ cfg \in [enabled : {[t \in Targets |-> t # "pg2"]},
                pool_size : {[t \in Targets |-> MaxPoolSize]},
                parallel_jobs : {2},
                check_interval : {300},
                retention_days : {7}]
    /\ \E pe \in BOOLEAN :
          /\ cleanup = [NoCleanup EXCEPT !.path_exists = pe]
          /\ files \in (IF pe THEN [FileIds -> FileRecs] ELSE {EmptyDir})
    /\ ConstructedRest

CleanupNext == \E fail \in SUBSET FileIds, listing \in {"ok", "fails"} : CleanupRun(fail, listing)

CleanupSpec == CleanupInit /\ [][CleanupNext]_vars

\* ------------------------------------------- _initialize_connection_pools
\* what the try block does for an enabled target in condition c: a postgresql
\* pool connects its minconn connections and reads db_config['host'] at once, a
\* sqlserver entry only stores the configuration
PoolCreation(t, c) ==
    IF db_type(t) = "postgresql" /\ c \in {"unreachable", "malformed"} THEN "raises" ELSE "created"

\* the except clause: the error is logged, counted and raised again
ExceptClause(outcome) == IF outcome = "raises" THEN "aborted" ELSE "pools"

\* one iteration of the loop over config['databases']
StartupPool ==
    /\ startup.pc = "pools" /\ startup.i < Len(TargetOrder)
    /\ LET t == TargetOrder[startup.i + 1]
           o == PoolCreation(t, startup.env[t]) IN
       IF ~Enabled(t)
       THEN /\ startup' = [startup EXCEPT !.i = @ + 1]
            /\ UNCHANGED <<connection_pools, live>>
       ELSE IF o = "created"
       THEN /\ startup' = [startup EXCEPT !.i = @ + 1]
            /\ connection_pools' = [connection_pools EXCEPT ![t] = InitPool(cfg.enabled, t)]
            /\ live' = [live EXCEPT ![t] = InitLive(cfg.enabled, t)]
       ELSE /\ startup' = [startup EXCEPT !.pc = ExceptClause(o)]
            /\ UNCHANGED <<connection_pools, live>>
    /\ UNCHANGED <<cfg, alert_config, send, smtp_calls, alert_errors, cliVars, dirVars, tainted, scope,
                   ncalls, schedVars>>

\* the loop is over: __init__ returns the object
StartupDone ==
    /\ startup.pc = "pools" /\ startup.i = Len(TargetOrder)
    /\ startup' = [startup EXCEPT !.pc = "done"]
    /\ UNCHANGED <<cfg, alert_config, send, smtp_calls, alert_errors, cliVars, dirVars, poolVars,
                   ncalls, schedVars>>

\* __init__ before _initialize_connection_pools, for a valid configuration
StartupInit ==
    /\ files = EmptyDir
    /\ cleanup = NoCleanup
    /\ alert_config = [enabled |-> TRUE, password |-> TRUE]
    /\ cfg \in [enabled : [Targets -> BOOLEAN],
                pool_size : {[t \in Targets |-> n] : n \in 1..MaxPoolSize},
                parallel_jobs : {2},
                check_interval : {300},
                retention_days : {7}]
    /\ connection_pools = [t \in Targets |-> InitPool([u \in Targets |-> FALSE], t)]
    /\ live = [t \in Targets |-> {}]
    /\ startup \in [pc : {"pools"}, i : {0}, env : [Targets -> TargetConditions]]
    /\ load = ConfigLoaded
    /\ proc = NoProc
    /\ NothingRun

StartupNext == StartupPool \/ StartupDone

StartupSpec == StartupInit /\ [][StartupNext]_vars

\* ------------------------------------- a health round over three targets
\* the round in which target pg1 answers every query, queries of target pg2 run
\* out of time and target ms1 has metrics that cannot be collected
RoundOutcomes(t) ==
    CASE t = "pg1" -> {"ok"}
      [] t = "pg2" -> {"ok", "interrupt", "hang"}
      [] OTHER     -> {"ok", "error"}

\* the three targets of config['databases'] are enabled
RoundInit ==
    /\ files = EmptyDir
    /\ alert_config = [enabled |-> TRUE, password |-> TRUE]
    /\ cfg \in [enabled : {[t \in Targets |-> TRUE]},
                pool_size : {[t \in Targets |-> MaxPoolSize]},
                parallel_jobs : {2},
                check_interval : {300},
                retention_days : {7}]
    /\ ConstructedState

\* run_health_checks is the job that comes due
RoundPoll == MainPoll /\ batch' \in {<<>>, <<"health">>}

\* the connection of a postgresql target is acquired
RoundEnter(t) == OpEnter(t) /\ (db_type(t) = "postgresql" => scope'[t].pc = "held")

RoundNext ==
    \/ RoundPoll
    \/ StartFanOut
    \/ RunPendingDone
    \/ Collect
    \/ ExecutorExit
    \/ SleepTick
    \/ \E t \in Targets : TaskStart(t)
    \/ \E t \in Targets : RoundEnter(t)
    \/ \E t \in Targets : \E o \in RoundOutcomes(t), p \in {"none", "rows"} : OpExit(t, o, p)
    \/ \E t \in Targets, high, long \in BOOLEAN : CheckHealthAlerts(t, high, long)

RoundSpec == RoundInit /\ [][RoundNext]_vars

\* ------------------------------------------------------------ _load_config
\* for section in required_sections: the first one that is not in the document
FirstMissing(present) ==
    LET miss == {k \in 1..Len(RequiredSections) : RequiredSections[k] \notin present} IN
    IF miss = {} THEN "none"
    ELSE RequiredSections[CHOOSE k \in miss : \A m \in miss : k <= m]

\* _load_config(config_file) for file f: the value returned or the exception raised
LoadConfigResult(f) ==
    IF ~f.exists THEN [kind |-> "default", section |-> "none"]
    ELSE IF f.kind = "invalid" THEN [kind |-> "YAMLError", section |-> "none"]
    ELSE IF f.kind = "null"
    THEN \* 'databases' not in None
         [kind |-> "TypeError", section |-> "none"]
    ELSE IF FirstMissing(f.sections) # "none"
    THEN [kind |-> "ValueError", section |-> FirstMissing(f.sections)]
    ELSE [kind |-> "parsed", section |-> "none"]

\* a process starts and calls _load_config
LoadConfig ==
    /\ load' = [load EXCEPT !.read = load.file, !.result = LoadConfigResult(load.file)]
    /\ UNCHANGED <<cfg, alert_config, send, smtp_calls, alert_errors, startup, proc, dirVars,
                   poolVars, ncalls, schedVars>>

\* the configuration file is written, replaced or removed between two runs
EditConfigFile(f) ==
    /\ f \in ConfigFiles /\ f # load.file
    /\ load' = [load EXCEPT !.file = f]
    /\ UNCHANGED <<cfg, alert_config, send, smtp_calls, alert_errors, startup, proc, dirVars,
                   poolVars, ncalls, schedVars>>

\* before __init__ has loaded anything, for any configuration file
ConfigInit ==
    /\ files = EmptyDir
    /\ cleanup = NoCleanup
    /\ alert_config = [enabled |-> TRUE, password |-> TRUE]
    /\ cfg \in [enabled : {[t \in Targets |-> t # "pg2"]},
                pool_size : {[t \in Targets |-> MaxPoolSize]},
                parallel_jobs : {2},
                check_interval : {300},
                retention_days : {7}]
    /\ connection_pools = [t \in Targets |-> InitPool([u \in Targets |-> FALSE], t)]
    /\ live = [t \in Targets |-> {}]
    /\ startup = [pc |-> "config", i |-> 0, env |-> [t \in Targets |-> "ok"]]
    /\ \E f \in ConfigFiles : load = [file |-> f, read |-> f, result |-> NoResult]
    /\ proc = NoProc
    /\ NothingRun

ConfigNext == LoadConfig \/ \E f \in ConfigFiles : EditConfigFile(f)

ConfigSpec == ConfigInit /\ [][ConfigNext]_vars

\* -------------------------------------------------------------------- main
\* args.command: a subcommand or none
Commands == {"health", "backup", "optimize", "test", "status", "monitor", "none"}

\* the except clauses of main for the exception that left the try block:
\* KeyboardInterrupt is logged, any other Exception is logged and sys.exit(1)
\* raises SystemExit; a SystemExit (sys.exit(0) of _signal_handler) matches
\* neither clause and goes on
AfterExcept(exc) ==
    CASE exc = "KeyboardInterrupt" -> [exc |-> "none", status |-> "none"]
      [] exc = "Exception"         -> [exc |-> "SystemExit", status |-> "1"]
      [] OTHER                     -> [exc |-> exc, status |-> "0"]

\* finally: if 'automation' in locals(): automation.close_all_connections()
MutFinallyCloses(bound, exc) == bound /\ exc = "none"
FinallyCloses(bound, exc) == bound

\* automation = DatabaseAutomation(args.config) returns the object or raises
MainConstruct(outcome) ==
    /\ proc.pc = "start"
    /\ outcome \in {"ok", "KeyboardInterrupt", "Exception"}
    /\ IF outcome = "ok"
       THEN /\ proc' = [proc EXCEPT !.pc = "command", !.automation = TRUE]
            /\ connection_pools' = [t \in Targets |-> InitPool(cfg.enabled, t)]
            /\ live' = [t \in Targets |-> InitLive(cfg.enabled, t)]
       ELSE /\ proc' = [proc EXCEPT !.pc = "except", !.cause = outcome, !.exc = outcome]
            /\ UNCHANGED <<connection_pools, live>>
    /\ UNCHANGED <<cfg, alert_config, send, smtp_calls, alert_errors, startup, load, dirVars,
                   tainted, scope, ncalls, schedVars>>

\* the branch of args.command ends: it returns, KeyboardInterrupt or another
\* exception is raised in it, or a signal arrives and _signal_handler closes the
\* pools and calls sys.exit(0)
MainCommand(outcome) ==
    /\ proc.pc = "command"
    /\ outcome \in {"returns", "KeyboardInterrupt", "Exception", "signal"}
    /\ CASE outcome = "returns" ->
              /\ proc' = [proc EXCEPT !.pc = "finally", !.cause = outcome]
              /\ UNCHANGED poolVars
         [] outcome = "signal" ->
              /\ proc' = [proc EXCEPT !.pc = "except", !.cause = outcome, !.exc = "SystemExit",
                                      !.closes = @ + 1]
              /\ close_all_connections
              /\ UNCHANGED scope
         [] OTHER ->
              /\ proc' = [proc EXCEPT !.pc = "except", !.cause = outcome, !.exc = outcome]
              /\ UNCHANGED poolVars
    /\ UNCHANGED <<cfg, alert_config, send, smtp_calls, alert_errors, startup, load, dirVars,
                   ncalls, schedVars>>

\* the except clauses
MainExcept ==
    /\ proc.pc = "except"
    /\ proc' = [proc EXCEPT !.pc = "finally", !.exc = AfterExcept(proc.exc).exc,
                            !.status = AfterExcept(proc.exc).status]
    /\ UNCHANGED <<cfg, alert_config, send, smtp_calls, alert_errors, startup, load, dirVars,
                   poolVars, ncalls, schedVars>>

\* the finally clause, then main returns or the pending SystemExit ends the process
MainFinally ==
    /\ proc.pc = "finally"
    /\ IF FinallyCloses(proc.automation, proc.exc)
       THEN /\ close_all_connections
            /\ proc' = [proc EXCEPT !.pc = "ended", !.closes = @ + 1,
                                    !.raised = proc.exc # "none",
                                    !.status = IF proc.exc = "none" THEN "0" ELSE @]
       ELSE /\ UNCHANGED <<connection_pools, live, tainted>>
            /\ proc' = [proc EXCEPT !.pc = "ended",
                                    !.raised = proc.exc # "none",
                                    !.status = IF proc.exc = "none" THEN "0" ELSE @]
    /\ UNCHANGED <<cfg, alert_config, send, smtp_calls, alert_errors, startup, load, dirVars,
                   scope, ncalls, schedVars>>

\* main() is entered with the parsed arguments
MainInit ==
    /\ files = EmptyDir
    /\ cleanup = NoCleanup
    /\ alert_config = [enabled |-> TRUE, password |-> TRUE]
    /\ cfg \in [enabled : {[t \in Targets |-> t # "pg2"], [t \in Targets |-> TRUE]},
                pool_size : {[t \in Targets |-> n] : n \in 1..MaxPoolSize},
                parallel_jobs : {2},
                check_interval : {300},
                retention_days : {7}]
    /\ connection_pools = [t \in Targets |-> InitPool([u \in Targets |-> FALSE], t)]
    /\ live = [t \in Targets |-> {}]
    /\ startup = Constructed
    /\ load = ConfigLoaded
    /\ \E c \in Commands : proc = [NoProc EXCEPT !.pc = "start", !.command = c]
    /\ NothingRun

MainNext ==
    \/ \E o \in {"ok", "KeyboardInterrupt", "Exception"} : MainConstruct(o)
    \/ \E o \in {"returns", "KeyboardInterrupt", "Exception", "signal"} : MainCommand(o)
    \/ MainExcept
    \/ MainFinally

MainSpec == MainInit /\ [][MainNext]_vars

\* ------------------------------------- concurrent backups of several targets
\* run_daily_maintenance with the three targets enabled and parallel_jobs workers
BackupsInit ==
    /\ files = EmptyDir
    /\ alert_config = [enabled |-> TRUE, password |-> TRUE]
    /\ cfg \in [enabled : {[t \in Targets |-> TRUE]},
                pool_size : {[t \in Targets |-> MaxPoolSize]},
                parallel_jobs : ParallelJobs,
                check_interval : {300},
                retention_days : {7}]
    /\ ConstructedState

\* run_daily_maintenance is the job that comes due
BackupsPoll == MainPoll /\ batch' \in {<<>>, <<"daily">>}

BackupsNext ==
    \/ BackupsPoll
    \/ StartFanOut
    \/ RunPendingDone
    \/ Collect
    \/ ExecutorExit
    \/ DailyCleanup
    \/ SendSummary
    \/ SleepTick
    \/ \E t \in Targets : TaskStart(t)
    \/ \E t \in Targets : OpEnter(t)
    \/ \E t \in Targets : \E o \in {"ok", "error"}, p \in {"none", "file", "no_file"} : OpExit(t, o, p)
    \/ \E t \in Targets, o \in {"ok", "no_file", "nonzero", "timeout", "oserror"} : BackupPgRun(t, o)
    \/ \E t \in Targets : BackupMkdirFails(t)

BackupsSpec == BackupsInit /\ [][BackupsNext]_vars

\* ------------------------------------------------------------------ claims

\* C2: whenever a get_connection scope has ended, on any path and under any
\* interleaving, its connection is back in the pool or closed: every open
\* connection is idle in its pool or held by a scope that is still open, the
\* connections a postgresql pool counts as handed out are exactly those of the
\* open scopes (acquired = released + held), and the open connections of a
\* sqlserver target are exactly those of the open scopes.
C2_AcquireReleaseBalanced ==
    /\ \A a \in Actors : scope[a].pc = "out" => scope[a].conn = 0
    /\ \A t \in Targets :
        /\ live[t] \subseteq connection_pools[t].idle \cup HeldConns(t)
        /\ db_type(t) = "postgresql" /\ ~connection_pools[t].closed =>
               connection_pools[t].used = HeldConns(t)
        /\ db_type(t) = "sqlserver" => live[t] = HeldConns(t)

\* a scope whose body raised has ended while another thread's scope is open
C2_Witness ==
    \E a, b \in Actors :
        /\ scope[a].pc = "out" /\ scope[a].last = "body_raised"
        /\ scope[b].pc = "held"

\* C3: the connections of a target held at the same time never exceed its
\* configured connection_pool_size.
C3_HeldWithinPoolSize ==
    \A t \in Targets :
        connection_pools[t].present => Cardinality(HeldConns(t)) <= cfg.pool_size[t]

\* C7: a connection whose operation was interrupted or timed out is never put
\* back among the idle connections of its pool.
C7_InterruptedNeverPooled ==
    \A t \in Targets : connection_pools[t].idle \cap tainted[t] = {}

\* C1: a cadence instant that passes while the same job is still running starts
\* no second run, queues nothing, and is recorded by exactly one log line
C1_OverlapSkippedAndLogged ==
    [][\A j \in Jobs :
          CadenceDuringRun(j) =>
              /\ curJob' = curJob /\ batch' = batch /\ task' = task
              /\ \E k \in LogKinds : log' = [log EXCEPT ![k] = @ + 1]]_vars

\* C4: the severity of the summary of a fan-out round is CRITICAL iff a result is
\* failed, WARNING iff none is failed and one is degraded, and INFO otherwise
C4_ThreeLevelRollup ==
    [][mainPc = "summary" /\ mainPc' = "pending" =>
          LET has(x) == \E k \in 1..Len(results) : results[k][2] = x
          IN summary'.severity = IF has("failed") THEN "CRITICAL"
                                 ELSE IF has("degraded") THEN "WARNING" ELSE "INFO"]_vars

\* C5: every operation submitted in a fan-out eventually yields its result,
\* whatever the other targets' operations do
C5_EveryTargetYieldsResult ==
    \A t \in Targets : (task[t].st = "queued") ~> (task[t].st \in {"done", "collected"})

\* C6: an operation whose query never returns eventually ends with a failed result
C6_HungOperationFails ==
    \A t \in Targets :
        (scope[t].pc = "hung") ~> (task[t].st \in {"done", "collected"} /\ task[t].result = "failed")

\* C8: once the shutdown signal is received the main thread is out of the
\* scheduling loop, and no job is taken up, started or ended from then on
C8_NoDispatchAfterShutdown ==
    [][shutdown_event' =>
          /\ mainPc' \in {"unwind", "exited", "blocked"}
          /\ fired' = fired /\ batch' = batch /\ curJob' = curJob]_vars

C8_Witness == shutdown_event /\ mainPc = "exited" /\ batch # <<>>

\* C9: no pool is closed while an operation holds a connection of it, and the
\* main thread does not leave while a job is in flight
C9_InFlightJobFinishes ==
    /\ \A t \in Targets : connection_pools[t].closed => HeldConns(t) = {}
    /\ mainPc = "exited" => curJob = "none"

\* C10: every finished operation whose result is failed sent a CRITICAL alert
C10_FailedSendsCritical ==
    \A t \in Targets :
        task[t].st \in {"done", "collected"} /\ task[t].result = "failed" => task[t].crit >= 1

\* C11: while alerting is disabled no call to smtplib is made and every
\* send_alert call has returned at once
C11_DisabledNoDelivery ==
    ~alert_config.enabled => smtp_calls = 0 /\ send.pc = "idle" /\ send.returns = send.calls

C11_Witness ==
    ~alert_config.enabled /\ send.returns = MaxAlerts /\ send.severity = "CRITICAL" /\ send.result = "failed"

\* C12: send_alert never raises: after a delivery failure the error is logged,
\* the caller keeps its own result, and a call connects to the server at most once
C12_SendAlertNeverRaises ==
    /\ ~send.raised
    /\ send.attempts <= 1
    /\ send.pc = "idle" /\ send.returns > 0 => send.after = send.result
    /\ alert_errors <= send.returns

C12_Witness ==
    send.pc = "idle" /\ alert_errors = MaxAlerts /\ send.result = "success" /\ send.attempts = 1

\* C13: a cleanup_old_backups run that ends in success or partial_success removes
\* exactly the regular files with a backup extension (.sql, .sql.gz, .bak, .dump)
\* whose modification time is more than retention_days old and whose processing did
\* not raise, and leaves every other entry untouched; a run that ends in
\* warning or failed removes nothing; the run after a successful run removes nothing.
C13_CleanupDeletesExpiredBackups ==
    [][cleanup'.runs = cleanup.runs + 1 =>
          /\ cleanup'.status \in {"success", "partial_success"} =>
                \A i \in FileIds :
                    files'[i] = IF /\ files[i].present /\ files[i].kind = "file"
                                   /\ files[i].ext \in {".sql", ".sql.gz", ".bak", ".dump"}
                                   /\ files[i].age > cfg.retention_days
                                   /\ i \notin cleanup'.failed
                                THEN NoFile ELSE files[i]
          /\ cleanup'.status \in {"warning", "failed"} => files' = files
          /\ cleanup'.deleted = {i \in FileIds : files[i].present /\ ~files'[i].present}
          /\ cleanup.status = "success" => cleanup'.deleted = {} /\ files' = files]_vars

\* a successful run removed an expired backup and left an equally old file
\* without a backup extension in place
C13_Witness ==
    /\ cleanup.status = "success" /\ cleanup.deleted # {}
    /\ \E i \in FileIds : /\ files[i].present /\ files[i].kind = "file"
                          /\ files[i].ext = ".txt" /\ files[i].age > cfg.retention_days

\* C13 as stated: a successful run removes exactly the files of the backup directory
\* older than retention_days, and the run after it removes nothing
C13_DeletesEveryOldFile ==
    [][cleanup'.runs = cleanup.runs + 1 /\ cleanup'.status = "success" =>
          /\ \A i \in FileIds :
                files'[i] = IF /\ files[i].present /\ files[i].kind = "file"
                               /\ files[i].age > cfg.retention_days
                            THEN NoFile ELSE files[i]
          /\ cleanup.status = "success" => cleanup'.deleted = {}]_vars

\* C14: a health check in which some metric query failed ends with the result
\* degraded, whichever metric it was
C14_PartialFailureIsDegraded ==
    \A t \in Targets :
        /\ task[t].kind = "health" /\ task[t].st \in {"done", "collected"}
        /\ task[t].status = "degraded"
        => task[t].result = "degraded"

\* C15: every finished monitor_database_health, automated_backup and
\* performance_optimization call holds a result with a status, never an exception,
\* whatever failed in the acquisition of a connection or in a query
C15_ErrorsReturnedAsStatus ==
    \A t \in Targets :
        task[t].st \in {"done", "collected"} =>
            task[t].result \in {"healthy", "degraded", "error", "success", "failed"}

\* an optimization whose query or acquisition raised has returned failed
C15_Witness ==
    \E t \in Targets :
        /\ task[t].st = "done" /\ task[t].kind = "weekly"
        /\ task[t].result = "failed" /\ task[t].i < NumQueries("weekly", t)

\* C16: a job that ends with a target whose result is not a success has
\* collected a result of every enabled target, has reported a digest of its own
\* with a non-success severity, and leaves the main thread in the scheduling loop
C16_FailedJobReportsDigest ==
    [][/\ curJob # "none" /\ curJob' = "none" /\ ~shutdown_event'
       /\ \E t \in Targets : task[t].st = "collected" /\ task[t].result \notin {"success", "healthy"}
       => /\ \A t \in Targets : Enabled(t) => task[t].st = "collected"
          /\ mainPc' = "pending"
          /\ summary'.job = curJob /\ summary'.severity \in {"WARNING", "CRITICAL"}]_vars

\* C17: with a valid configuration the construction does not abort, whatever
\* condition the enabled targets are in: it ends with a pool entry for every
\* enabled target that is in order
C17_ConstructionSucceeds ==
    /\ startup.pc # "aborted"
    /\ startup.pc = "done" =>
          \A t \in Targets : Enabled(t) /\ startup.env[t] = "ok" => connection_pools[t].present

\* C18: get_enabled_databases lists, in configuration order, exactly the targets
\* whose enabled flag is true, and a disabled target has no pool, is given no
\* operation by a fan-out, opens no connection scope and is in no fan-out's results
C18_DisabledTargetsSkipped ==
    /\ \A en \in [Targets -> BOOLEAN] :
          LET e == EnabledIn(en) IN
          /\ {e[k] : k \in 1..Len(e)} = {t \in Targets : en[t]}
          /\ \A j, k \in 1..Len(e) : j < k => Pos(e[j]) < Pos(e[k])
    /\ \A t \in Targets :
          ~Enabled(t) =>
              /\ ~connection_pools[t].present
              /\ task[t] = NoTask /\ scope[t] = NoScope
              /\ backup_counter[t].started = 0
              /\ monitoring_metrics[t] = "none"
              /\ \A k \in 1..Len(results) : results[k][1] # t
              /\ \A k \in 1..Len(completed) : completed[k] # t

\* a fan-out over a configuration with disabled targets has collected its results
C18_Witness ==
    /\ \E t \in Targets : ~Enabled(t)
    /\ mainPc = "summary" /\ Len(results) = Len(get_enabled_databases) /\ results # <<>>

\* C19: in every fan-out the number of operations running at once is at most
\* the configured backup parallel_jobs
C19_RunningWithinParallelJobs ==
    Cardinality(Running) <= cfg.parallel_jobs

\* C20: a job whose cadence instant passes while a different job is in progress
\* fires at that instant: its round is executing while the other job goes on
C20_DifferentJobsOverlap ==
    [][\A j \in Jobs :
          CadenceOfOtherJob(j) =>
              /\ curJob' = curJob
              /\ \E t \in Targets : task'[t].kind = j /\ task'[t].st \in {"queued", "running"}]_vars

\* C21: for every configured check_interval the health-check job is one that
\* run_pending can find runnable, so that its rounds are fired while the loop runs
C21_HealthRoundsFire ==
    <<"health">> \in Runnable(1)

\* C22: a finished health check has sent exactly one WARNING alert when its
\* connection count is over the threshold or its list of long-running queries is
\* not empty, and no WARNING alert otherwise
C22_BreachSendsOneWarning ==
    \A t \in Targets :
        task[t].kind = "health" /\ task[t].st \in {"done", "collected"} =>
            task[t].warn = IF task[t].cc = "high" \/ task[t].lrq = "rows" THEN 1 ELSE 0

\* C23: a health round that ends after the check of pg1 succeeded, a query of pg2
\* timed out and ms1 returned a degraded payload has stored a failed result for
\* pg2, has sent exactly one CRITICAL alert, and has stored the results of pg1 and
\* ms1 as success (healthy) and degraded
C23_ThreeTargetRound ==
    [][/\ curJob = "health" /\ curJob' = "none"
       /\ task["pg1"].status = "healthy"
       /\ task["pg2"].status = "degraded"
       /\ task["ms1"].result = "degraded"
       => /\ monitoring_metrics'["pg2"] \in {"failed", "error"}
          /\ Cardinality({t \in Targets : task[t].crit = 1}) = 1
          /\ monitoring_metrics'["pg1"] \in {"success", "healthy"}
          /\ monitoring_metrics'["ms1"] = "degraded"]_vars

\* C24: no two open get_connection scopes hold the same connection, and an open
\* connection that no scope holds is idle in its pool
C24_ConnectionNeverShared ==
    /\ \A a, b \in Actors :
          /\ a # b
          /\ scope[a].pc \in {"held", "hung"} /\ scope[b].pc \in {"held", "hung"}
          /\ scope[a].db = scope[b].db
          => scope[a].conn # scope[b].conn
    /\ \A t \in Targets : \A c \in live[t] \ HeldConns(t) : c \in connection_pools[t].idle
    /\ \A t \in Targets : connection_pools[t].idle \cap HeldConns(t) = {}

\* two threads are inside scopes on the same postgresql target, one of them with
\* the connection that was idle in the pool
C24_Witness ==
    \E a, b \in Actors :
        /\ a # b /\ scope[a].pc = "held" /\ scope[b].pc = "held"
        /\ scope[a].db = scope[b].db /\ db_type(scope[a].db) = "postgresql"
        /\ scope[a].conn \in 1..minconn

\* C25: _load_config returns the default configuration for a file that does not
\* exist, raises ValueError naming the first missing one of databases, monitoring,
\* backup for an existing file that lacks a required section, and returns the
\* parsed configuration when the three are present
C25_LoadConfigValidates ==
    load.result # NoResult /\ load.read.kind # "invalid" =>
        load.result =
            IF ~load.read.exists THEN [kind |-> "default", section |-> "none"]
            ELSE IF "databases" \notin load.read.sections
            THEN [kind |-> "ValueError", section |-> "databases"]
            ELSE IF "monitoring" \notin load.read.sections
            THEN [kind |-> "ValueError", section |-> "monitoring"]
            ELSE IF "backup" \notin load.read.sections
            THEN [kind |-> "ValueError", section |-> "backup"]
            ELSE [kind |-> "parsed", section |-> "none"]

\* C26: when main has ended after the object was constructed, close_all_connections
\* was called and every postgresql pool is closed; after an application error the
\* exit status is 1, and after a KeyboardInterrupt main has returned without raising
C26_MainAlwaysCloses ==
    proc.pc = "ended" /\ proc.automation =>
        /\ proc.closes >= 1
        /\ \A t \in Targets :
              connection_pools[t].present /\ db_type(t) = "postgresql" =>
                  connection_pools[t].closed /\ live[t] = {}
        /\ proc.cause = "Exception" => proc.status = "1"
        /\ proc.cause = "KeyboardInterrupt" => ~proc.raised /\ proc.status = "0"

\* main has ended after an application error in the command of a constructed object
C26_Witness ==
    /\ proc.pc = "ended" /\ proc.automation
    /\ proc.cause = "Exception" /\ proc.raised /\ proc.closes = 1

C28_AtMostOneHealthAlert ==
    \A t \in Targets :
        task[t].kind = "health" /\ task[t].st \in {"done", "collected"} =>
            LET r == task[t] IN
            /\ r.info = 0 /\ r.warn + r.crit <= 1
            /\ r.crit = 1 <=> r.result = "error"
            /\ r.crit = 1 => r.gauge = "0"
            /\ r.warn = 1 <=> r.result # "error" /\ (r.cc = "high" \/ r.lrq = "rows")
            /\ r.gauge = "1" <=> r.result = "healthy"
            /\ r.gauge \in {"0", "1"}

\* a health check that completed as degraded (its long-running-queries query
\* failed) with a connection count over the threshold: one WARNING, gauge 0
C28_Witness ==
    \E t \in Targets :
        /\ task[t].kind = "health" /\ task[t].st = "done"
        /\ task[t].result = "degraded" /\ task[t].cc = "high"
        /\ task[t].warn = 1 /\ task[t].crit = 0 /\ task[t].gauge = "0"

\* C29: a call of automated_backup adds one to the counter started when it begins
\* and, when it returns, one to exactly one of the counters success and failed, the
\* one named by the status of the returned result; nothing else changes the
\* counters of a target, whatever the backups of the other targets are doing
C29_BackupCountedOnce ==
    [][\A t \in Targets :
          LET c == backup_counter[t]
              begins  == task[t].st = "queued" /\ task'[t].st = "running"
              returns == task[t].st = "running" /\ task'[t].st = "done"
          IN
          /\ task[t].kind = "daily" /\ begins =>
                backup_counter'[t] = [c EXCEPT !.started = @ + 1]
          /\ task[t].kind = "daily" /\ returns =>
                /\ task'[t].result \in {"success", "failed"}
                /\ backup_counter'[t] = [c EXCEPT ![task'[t].result] = @ + 1]
          /\ backup_counter'[t] # c =>
                task[t].kind = "daily" /\ (begins \/ returns)
          /\ c.started = c.success + c.failed
                         + (IF task[t].kind = "daily" /\ task[t].st = "running" THEN 1 ELSE 0)]_vars

\* two backups are running at the same time and a third has returned a failure
C29_Witness ==
    /\ Cardinality({t \in Targets : task[t].kind = "daily" /\ task[t].st = "running"}) = 2
    /\ \E t \in Targets :
          /\ task[t].kind = "daily" /\ task[t].st = "done" /\ task[t].result = "failed"
          /\ backup_counter[t] = [started |-> 1, success |-> 0, failed |-> 1]

\* C30: a call of cleanup_old_backups leaves in place, unchanged, every entry that
\* is not a regular file with one of the four backup extensions and every file
\* modified at or after the cutoff (its age is at most retention_days); it changes
\* no entry other than by removing it; and when the backup path does not exist
\* it removes nothing and returns the status warning
C30_CleanupFrame ==
    [][cleanup'.runs = cleanup.runs + 1 =>
          /\ \A i \in FileIds :
                /\ files[i].kind # "file" \/ files[i].ext \notin {".sql", ".sql.gz", ".bak", ".dump"}
                      => files'[i] = files[i]
                /\ files[i].present /\ files[i].age <= cfg.retention_days
                      => files'[i] = files[i]
                /\ files'[i] \in {files[i], NoFile}
          /\ ~cleanup.path_exists =>
                files' = files /\ cleanup'.status = "warning" /\ cleanup'.deleted = {}]_vars

\* a successful run removed an expired backup and left in place a directory of
\* the same age whose name ends in .bak
C30_Witness ==
    /\ cleanup.runs >= 1 /\ cleanup.status = "success" /\ cleanup.deleted # {}
    /\ \E i \in FileIds : /\ files[i].present /\ files[i].kind = "dir"
                          /\ files[i].ext = ".bak" /\ files[i].age > cfg.retention_days

====
